---- MODULE Spec2Model ----
(***************************************************************************)
(* FaceScanQR (src/src/pages/FaceScanQR.jsx): one React function component *)
(* in two variants.  The "enhanced" variant (lines 1-230) gates capture on *)
(* a face-detection loop driven by requestAnimationFrame; the "basic"      *)
(* variant (lines 232-376) captures on a 3000 ms interval timer.           *)
(*                                                                         *)
(* Runtime conventions the model rests on:                                 *)
(*  - the state setters called by one handler are committed together with  *)
(*    the handler (render and DOM update);                                 *)
(*  - the effects of a commit (useEffect cleanup and re-run) are passive:  *)
(*    they run later, as a step of their own (FlushEffects), at the latest *)
(*    before the next commit and before the clock advances.  An animation  *)
(*    frame, a detection, an encoding or a response that is already due    *)
(*    may be delivered in between.  A commit made by a click (resetScan)   *)
(*    or an unmount runs its effects at once;                              *)
(*  - encoding a canvas (toBlob) takes less than one step of the clock; a  *)
(*    detection or a request may take any time;                            *)
(*  - a function created by a render reads the state of THAT render        *)
(*    (loading, status, qrImage are closure values, not live reads);       *)
(*  - a setter called after unmount changes nothing; the call is recorded  *)
(*    in `late`;                                                           *)
(*  - the unmount cleanup still sees the <video> element that was rendered *)
(*    when the unmount began (the reading most favourable to stopCamera).  *)
(***************************************************************************)
EXTENDS Naturals, Integers, FiniteSets, Sequences

VARIABLES
    variant,      \* "enhanced" | "basic": which component is mounted
    mounted,      \* the component is mounted
    status,       \* useState: status
    loading,      \* useState: loading
    qrImage,      \* useState: qrImage
    user,         \* useState: user
    modelLoaded,  \* useState: modelLoaded (enhanced)
    model,        \* loadModels: "pending" | "ok" | "failed" | "na"
    cam,          \* getUserMedia: "idle" | "pending" | "live" | "denied" | "stopped"
    video,        \* the <video> element: "none" | "empty" | "bound" | "playing"
    alerts,       \* number of alert("Camera access denied") raised
    loops,        \* enhanced: detection loops that still have a frame or a detection pending
    interval,     \* basic: 0 = no interval armed, else the time of its next tick
    fxPending,    \* a commit changed a dependency and its effect has not run yet
    toBlob,       \* pending canvas.toBlob callbacks, by what was drawn
    posts,        \* axios.post requests in flight
    now,          \* Date.now()
    trigAt,       \* time of the last trigger fired by the detection loop (0 = none)
    late,         \* handlers that called a state setter after unmount
    hasReset,     \* resetScan has been invoked
    ev            \* what the last step did

vars == << variant, mounted, status, loading, qrImage, user, modelLoaded, model,
           cam, video, alerts, loops, interval, fxPending, toBlob, posts, now, trigAt,
           late, hasReset, ev >>

----------------------------------------------------------------------------
(* Program constants *)

SCAN_COOLDOWN == 3000
DETECTION_STABILITY_DELAY == 1000
INTERVAL_MS == 3000

INITIALIZING == "Initializing..."
IDLE == "Idle"
SCANNING == "Scanning face..."
QR_GENERATED == "QR Generated"          \* "✅ QR Generated"
MODEL_ERROR == "Model Error"            \* "❌ Model Error"
NOT_RECOGNIZED == "Face not recognized" \* "❌ Face not recognized"

null == "null"
QR == "data:qr"
USER == "user"

(* Bounds *)
MaxTicks == 6
MaxZombies == 1
TickMs == DETECTION_STABILITY_DELAY
StartTime == 2 * SCAN_COOLDOWN
MaxTime == StartTime + MaxTicks * TickMs

(* Server-supplied message: <<>> is an absent field *)
Messages == { <<>>, <<"">>, <<"Unknown face">> }

----------------------------------------------------------------------------
(* Pure helpers *)

\* message || "❌ Face not recognized"  (lines 175, 179)
OrFallback(m) == IF m = <<>> \/ m[1] = "" THEN NOT_RECOGNIZED ELSE m[1]

\* now - firstDetectionTime > DETECTION_STABILITY_DELAY  (line 115)
StableEnough(t, first) == t - first > DETECTION_STABILITY_DELAY

\* now - lastScanTime > SCAN_COOLDOWN  (line 115)
CooledDown(t, last) == t - last > SCAN_COOLDOWN

\* let lastScanTime = 0  (line 57): every run of the effect starts a fresh one
InitialLastScanTime(t) == 0

\* Mutant: a frame without a face keeps the stability timer
NoFaceKeeps(first) == first

\* else branch, line 123
NoFaceReset(first) == 0

\* ev: what the last step did.  trig: scanFace was called by the loop or the
\* timer; started: the call passed its guard; post: axios.post was issued;
\* since: start of the unbroken run of face frames behind a trigger;
\* prev: time of the previous trigger of the detection loop (0 = none);
\* resp: the response handled, if any; noface / face: a frame without / with
\* a face was processed, by the current loop (cur) or a superseded one, whose
\* closure has loading false and no success status (armed); from: the status
\* a scanFace call found; reset: resetScan ran; skip: an iteration found the
\* video not ready.
Quiet == [trig |-> FALSE, started |-> FALSE, post |-> FALSE, since |-> 0,
          prev |-> 0, resp |-> <<>>, noface |-> FALSE, face |-> FALSE,
          cur |-> FALSE, armed |-> FALSE, from |-> "", reset |-> FALSE,
          skip |-> FALSE]

State == [status |-> status, loading |-> loading, qrImage |-> qrImage,
          user |-> user, modelLoaded |-> modelLoaded]

\* dependency arrays, lines 134 and 279
DepsChanged(ns) ==
    \/ ns.qrImage # qrImage
    \/ ns.loading # loading
    \/ ns.status # status
    \/ (variant = "enhanced" /\ ns.modelLoaded # modelLoaded)

\* The <video> element is rendered only while qrImage is null (lines 198, 345);
\* a remounted element has no srcObject.
VideoAfter(ns, v) ==
    IF ns.qrImage # null THEN "none"
    ELSE IF v = "none" THEN "empty"
    ELSE v

\* return () => cancelAnimationFrame(animationFrameId)  (line 133).
\* A loop waiting for its frame is cancelled; a loop suspended at the await
\* of line 78 has no frame pending and survives, no longer the current one.
Cleanup(ls) ==
    { [l EXCEPT !.cur = FALSE] : l \in { x \in ls : x.cur /\ x.pc = "await" } }
    \cup { x \in ls : ~x.cur }

\* Mutant: the loop starts whether or not the detector is loaded
NewLoopsNoModelGuard(ns, v) ==
    IF ns.qrImage = null /\ v # "none"
    THEN { [cur |-> TRUE, loading |-> ns.loading,
            generated |-> (ns.status = QR_GENERATED),
            pc |-> IF v = "playing" THEN "await" ELSE "raf",
            lastScanTime |-> InitialLastScanTime(now),
            firstDetectionTime |-> 0, since |-> 0] }
    ELSE {}

\* if (modelLoaded && !qrImage) detectFaces()  (lines 129-131), with the first
\* synchronous part of detectFaces (lines 63-78)
NewLoops(ns, v) ==
    IF ns.modelLoaded /\ ns.qrImage = null /\ v # "none"
    THEN { [cur |-> TRUE, loading |-> ns.loading,
            generated |-> (ns.status = QR_GENERATED),
            pc |-> IF v = "playing" THEN "await" ELSE "raf",
            lastScanTime |-> InitialLastScanTime(now),
            firstDetectionTime |-> 0, since |-> 0] }
    ELSE {}

\* Mutant: the period doubles
NewIntervalDoubled(ns) ==
    IF ns.qrImage = null /\ ~ns.loading /\ ns.status # QR_GENERATED
    THEN now + 2 * INTERVAL_MS
    ELSE 0

\* Mutant: the timer is armed only from the idle status
NewIntervalIdleOnly(ns) ==
    IF ns.qrImage = null /\ ~ns.loading /\ ns.status = IDLE
    THEN now + INTERVAL_MS
    ELSE 0

\* basic auto-scan effect, lines 271-279
NewInterval(ns) ==
    IF ns.qrImage = null /\ ~ns.loading /\ ns.status # QR_GENERATED
    THEN now + INTERVAL_MS
    ELSE 0

\* Loops that outlived the cleanup of their effect; the model follows at most
\* MaxZombies of them at a time.
Zombies(ls) == { l \in ls : ~l.cur }
ZombiesBounded(ls) == Cardinality(Zombies(ls)) <= MaxZombies

\* The detection effect runs for the render state st (lines 55-134): the
\* previous run is cleaned up and a new loop starts.
RunLoopEffect(ls, st, v) ==
    IF variant = "enhanced" THEN Cleanup(ls) \cup NewLoops(st, v) ELSE {}

\* The auto-scan effect runs for the render state st (lines 271-279)
RunIntervalEffect(st) ==
    IF variant = "basic" THEN NewInterval(st) ELSE 0

\* Effects still pending from the previous commit run before the next render.
\* ls and tm are the loops and the interval as the handler left them.
LoopsBeforeRender(ls) == IF fxPending THEN RunLoopEffect(ls, State, video) ELSE ls
IntervalBeforeRender(tm) == IF fxPending THEN RunIntervalEffect(State) ELSE tm

\* One commit: the new state and the DOM; the effects are left pending when a
\* dependency changed.
Commit(ns, ls, tm) ==
    /\ status' = ns.status
    /\ loading' = ns.loading
    /\ qrImage' = ns.qrImage
    /\ user' = ns.user
    /\ modelLoaded' = ns.modelLoaded
    /\ video' = VideoAfter(ns, video)
    /\ IF DepsChanged(ns)
       THEN /\ fxPending' = TRUE
            /\ loops' = LoopsBeforeRender(ls)
            /\ ZombiesBounded(loops')
            /\ interval' = IntervalBeforeRender(tm)
       ELSE /\ fxPending' = fxPending
            /\ loops' = ls
            /\ interval' = tm

\* A commit made by a discrete event: its effects run with it.
SyncCommit(ns, ls, tm) ==
    /\ status' = ns.status
    /\ loading' = ns.loading
    /\ qrImage' = ns.qrImage
    /\ user' = ns.user
    /\ modelLoaded' = ns.modelLoaded
    /\ video' = VideoAfter(ns, video)
    /\ fxPending' = FALSE
    /\ loops' = RunLoopEffect(LoopsBeforeRender(ls), ns, VideoAfter(ns, video))
    /\ ZombiesBounded(loops')
    /\ interval' = RunIntervalEffect(ns)

\* A handler's setter calls: committed when mounted, dropped (and recorded)
\* after unmount.
Update(ns, ls, tm, who) ==
    IF mounted
    THEN Commit(ns, ls, tm) /\ late' = late
    ELSE /\ UNCHANGED << status, loading, qrImage, user, modelLoaded, video,
                         fxPending >>
         /\ interval' = tm
         /\ loops' = ls
         /\ late' = late \cup {who}

----------------------------------------------------------------------------
Init ==
    /\ variant \in {"enhanced", "basic"}
    /\ mounted = TRUE
    /\ status = IF variant = "enhanced" THEN INITIALIZING ELSE IDLE
    /\ loading = FALSE
    /\ qrImage = null
    /\ user = null
    /\ modelLoaded = FALSE
    /\ model = IF variant = "enhanced" THEN "pending" ELSE "na"
    /\ cam = IF variant = "enhanced" THEN "idle" ELSE "pending"
    /\ video = "empty"
    /\ alerts = 0
    /\ loops = {}
    /\ now = StartTime
    /\ interval = IF variant = "enhanced" THEN 0 ELSE StartTime + INTERVAL_MS
    /\ fxPending = FALSE
    /\ toBlob = [frame |-> 0, empty |-> 0]
    /\ posts = 0
    /\ trigAt = 0
    /\ late = {}
    /\ hasReset = FALSE
    /\ ev = Quiet

\* Date.now() advances by one step, once the pending effects and encodings
\* have run
Tick ==
    /\ now < MaxTime
    /\ ~fxPending
    /\ toBlob.frame + toBlob.empty = 0
    /\ now' = now + TickMs
    /\ ev' = Quiet
    /\ UNCHANGED << variant, mounted, status, loading, qrImage, user, modelLoaded,
                    model, cam, video, alerts, loops, interval, fxPending, toBlob,
                    posts, trigAt, late, hasReset >>

\* The pending effects of the last commit run
FlushEffects ==
    /\ mounted
    /\ fxPending
    /\ fxPending' = FALSE
    /\ loops' = RunLoopEffect(loops, State, video)
    /\ ZombiesBounded(loops')
    /\ interval' = RunIntervalEffect(State)
    /\ ev' = Quiet
    /\ UNCHANGED << variant, mounted, status, loading, qrImage, user, modelLoaded,
                    model, cam, video, alerts, toBlob, posts, now, trigAt, late, hasReset >>


\* A handler that calls no setter: nothing is rendered.
NoUpdate(ls, v, tm) ==
    /\ UNCHANGED << status, loading, qrImage, user, modelLoaded, late, fxPending >>
    /\ loops' = ls
    /\ video' = v
    /\ interval' = tm

\* if (loading || qrImage) return  (lines 143, 288), on the caller's closure
ScanGuard(cLoading, cQrImage) == cLoading \/ cQrImage # null

\* Mutant: the canvas has a fixed size, so it always encodes to an image
DrawnFixedSize(v) == "frame"

\* What scanFace draws: a frame of a playing video, or a canvas of size 0
\* (videoWidth and videoHeight are 0 until the video has data).
Drawn(v) == IF v = "playing" THEN "frame" ELSE "empty"

\* scanFace up to the toBlob call (lines 142-156, 287-303), called with the
\* closure values cLoading and cQrImage of the render that created it.
\* e is the event record of the calling step.
ScanFace(cLoading, cQrImage, ls, tm, e) ==
    IF ScanGuard(cLoading, cQrImage)
    THEN /\ NoUpdate(ls, video, tm)
         /\ ev' = [e EXCEPT !.trig = TRUE, !.from = status]
         /\ toBlob' = toBlob
    ELSE /\ Update([State EXCEPT !.loading = TRUE, !.status = SCANNING],
                   ls, tm, "scanFace")
         /\ ev' = [e EXCEPT !.trig = TRUE, !.started = TRUE, !.from = status]
         /\ IF video = "none"
            \* enhanced: video.videoWidth on null throws (line 151);
            \* basic: if (!video || !canvas) return (line 295)
            THEN toBlob' = toBlob
            ELSE toBlob' = [toBlob EXCEPT ![Drawn(video)] = @ + 1]

----------------------------------------------------------------------------
(* Enhanced variant: the detection loop *)

\* Mutant: the not-ready branch returns without scheduling a frame
NotReadyStops(l, ls) == ls \ {l}

\* The video is paused, ended or has no data (lines 68-71): the loop requests
\* its next frame and returns; its timers are untouched.
NotReady(l, ls) == (ls \ {l}) \cup {[l EXCEPT !.pc = "raf"]}

\* The animation frame of loop l fires: detectFaces up to the await (lines 62-78)
IterBegin(l) ==
    /\ l \in loops
    /\ l.pc = "raf"
    /\ loops' = IF video = "none"
                THEN loops \ {l}                                   \* line 63
                ELSE IF video # "playing"
                THEN NotReady(l, loops)                            \* lines 68-71
                ELSE (loops \ {l}) \cup {[l EXCEPT !.pc = "await"]}  \* line 78
    /\ ev' = IF video \notin {"none", "playing"}
             THEN [Quiet EXCEPT !.skip = TRUE, !.cur = l.cur]
             ELSE Quiet
    /\ UNCHANGED << variant, mounted, status, loading, qrImage, user, modelLoaded,
                    model, cam, video, alerts, interval, fxPending, toBlob, posts,
                    now, trigAt, late, hasReset >>

\* firstDetectionTime after a frame with faces (lines 89-91)
FirstSeen(first, t) == IF first = 0 THEN t ELSE first

\* The trigger condition of line 115, on the loop's own closure
TriggerCond(l, first) ==
    /\ StableEnough(now, first)
    /\ ~l.loading
    /\ ~l.generated
    /\ CooledDown(now, l.lastScanTime)

\* The detection of loop l resolves: detectFaces from line 79 to line 126
IterResume(l, faces) ==
    /\ l \in loops
    /\ l.pc = "await"
    /\ UNCHANGED << variant, mounted, model, cam, alerts, posts, now, hasReset >>
    /\ IF faces
       THEN LET first == FirstSeen(l.firstDetectionTime, now)
                since == IF l.since = 0 THEN now ELSE l.since
                e == [Quiet EXCEPT !.face = TRUE, !.cur = l.cur, !.since = since,
                                   !.armed = ~l.loading /\ ~l.generated]
            IN  IF TriggerCond(l, first)
                THEN LET l2 == [l EXCEPT !.pc = "raf", !.lastScanTime = now,
                                         !.firstDetectionTime = 0, !.since = 0]
                     IN  /\ ScanFace(l.loading, null, (loops \ {l}) \cup {l2}, interval,
                                     [e EXCEPT !.prev = trigAt])
                         /\ trigAt' = now
                ELSE /\ NoUpdate((loops \ {l}) \cup
                                 {[l EXCEPT !.pc = "raf", !.firstDetectionTime = first,
                                            !.since = since]}, video, interval)
                     /\ ev' = e
                     /\ UNCHANGED << toBlob, trigAt >>
       ELSE /\ NoUpdate((loops \ {l}) \cup
                        {[l EXCEPT !.pc = "raf",
                                   !.firstDetectionTime = NoFaceReset(@),
                                   !.since = 0]}, video, interval)
            /\ ev' = [Quiet EXCEPT !.noface = TRUE, !.cur = l.cur]
            /\ UNCHANGED << toBlob, trigAt >>

----------------------------------------------------------------------------
(* Basic variant: the interval timer *)

\* setInterval(() => scanFace(), 3000) fires (lines 274-276).  The interval is
\* armed only by a render with loading false and qrImage null (line 273), and
\* those are the values its scanFace reads.
IntervalTick ==
    /\ variant = "basic"
    /\ interval # 0
    /\ now >= interval
    /\ ScanFace(FALSE, null, loops, now + INTERVAL_MS, Quiet)
    /\ UNCHANGED << variant, mounted, model, cam, alerts, posts, now, trigAt, hasReset >>

----------------------------------------------------------------------------
(* Capture-and-submit: the asynchronous tail of scanFace *)

\* The toBlob callback runs (lines 156-167, 303-314).  blob = FALSE is a null
\* blob; a canvas of size 0 always encodes to null.
ToBlobDone(kind, blob) ==
    /\ toBlob[kind] > 0
    /\ kind = "empty" => ~blob
    /\ toBlob' = [toBlob EXCEPT ![kind] = @ - 1]
    /\ IF blob
       THEN /\ posts' = posts + 1                                  \* axios.post
            /\ ev' = [Quiet EXCEPT !.post = TRUE]
            /\ NoUpdate(loops, video, interval)
       ELSE /\ posts' = posts
            /\ ev' = Quiet
            /\ Update([State EXCEPT !.loading = FALSE],            \* lines 157-160
                      loops, interval, "toBlob")
    /\ UNCHANGED << variant, mounted, model, cam, alerts, now, trigAt,
                    hasReset >>

\* What the remote endpoint, or the transport, can answer
Responses ==
    { [kind |-> "success", hasResponse |-> TRUE, message |-> <<>>] }
    \cup { [kind |-> "soft", hasResponse |-> TRUE, message |-> m] : m \in Messages }
    \cup { [kind |-> "error", hasResponse |-> TRUE, message |-> m] : m \in Messages }
    \cup { [kind |-> "error", hasResponse |-> FALSE, message |-> <<>>] }

\* Mutant: loading is not cleared on the error path
AfterResponseNoFinally(r) ==
    IF r.kind = "success"
    THEN [State EXCEPT !.qrImage = QR, !.user = USER, !.status = QR_GENERATED,
                       !.loading = FALSE]
    ELSE IF r.kind = "soft"
    THEN [State EXCEPT !.status = OrFallback(r.message), !.loading = FALSE]
    ELSE [State EXCEPT !.status = OrFallback(IF r.hasResponse THEN r.message ELSE <<>>)]

\* The state the response handler asks for (lines 164-182, 311-329); the
\* finally block clears loading on every path.
AfterResponse(r) ==
    IF r.kind = "success"
    THEN [State EXCEPT !.qrImage = QR, !.user = USER, !.status = QR_GENERATED,
                       !.loading = FALSE]
    ELSE IF r.kind = "soft"
    THEN [State EXCEPT !.status = OrFallback(r.message), !.loading = FALSE]
    ELSE [State EXCEPT !.status = OrFallback(IF r.hasResponse THEN r.message ELSE <<>>),
                       !.loading = FALSE]

\* axios.post settles
Response(r) ==
    /\ posts > 0
    /\ posts' = posts - 1
    /\ ev' = [Quiet EXCEPT !.resp = <<r>>]
    /\ Update(AfterResponse(r), loops, interval, "response")
    /\ UNCHANGED << variant, mounted, model, cam, alerts, toBlob, now, trigAt, hasReset >>

----------------------------------------------------------------------------
(* Mount effect: detector and camera *)

\* loadFromUri resolves (lines 22-25): the state is set, then startCamera()
ModelLoadOk ==
    /\ model = "pending"
    /\ model' = "ok"
    /\ cam' = "pending"
    /\ ev' = Quiet
    /\ Update([State EXCEPT !.modelLoaded = TRUE, !.status = IDLE],
              loops, interval, "loadModels")
    /\ UNCHANGED << variant, mounted, alerts, toBlob, posts, now, trigAt, hasReset >>

\* loadFromUri rejects (lines 26-29)
ModelLoadFail ==
    /\ model = "pending"
    /\ model' = "failed"
    /\ ev' = Quiet
    /\ Update([State EXCEPT !.status = MODEL_ERROR], loops, interval,
              "loadModels")
    /\ UNCHANGED << variant, mounted, cam, alerts, toBlob, posts, now, trigAt, hasReset >>

\* getUserMedia resolves (lines 38-43, 255-258).  enhanced: the stream is
\* bound only if videoRef.current is set; basic: the assignment on a null ref
\* throws into the catch, which raises the alert.
CameraGrant ==
    /\ cam = "pending"
    /\ cam' = "live"
    /\ alerts' = IF variant = "basic" /\ video = "none" THEN alerts + 1 ELSE alerts
    /\ ev' = Quiet
    /\ NoUpdate(loops, IF video = "none" THEN "none" ELSE "bound", interval)
    /\ UNCHANGED << variant, mounted, model, toBlob, posts, now, trigAt,
                    hasReset >>

\* getUserMedia rejects (lines 44-46, 259-261)
CameraDeny ==
    /\ cam = "pending"
    /\ cam' = "denied"
    /\ alerts' = alerts + 1
    /\ ev' = Quiet
    /\ NoUpdate(loops, video, interval)
    /\ UNCHANGED << variant, mounted, model, toBlob, posts, now, trigAt,
                    hasReset >>

\* <video autoPlay> starts playing the stream bound to it
VideoPlays ==
    /\ video = "bound"
    /\ ev' = Quiet
    /\ NoUpdate(loops, "playing", interval)
    /\ UNCHANGED << variant, mounted, model, cam, alerts, toBlob, posts, now,
                    trigAt, hasReset >>

----------------------------------------------------------------------------
(* User and lifecycle *)

\* Mutant: resetScan also clears loading
AfterResetClearsLoading ==
    [State EXCEPT !.qrImage = null, !.user = null, !.status = IDLE, !.loading = FALSE]

\* The state resetScan asks for (lines 137-139, 282-284)
AfterReset ==
    [State EXCEPT !.qrImage = null, !.user = null, !.status = IDLE]

\* "Scan Again" (lines 136-140, 281-285); the button is rendered only in the
\* result card (lines 209-223)
ResetScan ==
    /\ mounted
    /\ qrImage # null
    /\ hasReset' = TRUE
    /\ ev' = [Quiet EXCEPT !.reset = TRUE]
    /\ SyncCommit(AfterReset, loops, interval)
    /\ UNCHANGED << variant, mounted, model, cam, alerts, toBlob, posts, now,
                    trigAt, late >>

\* stopCamera (lines 49-52, 264-267): the stream is the srcObject of whatever
\* videoRef.current is when the cleanup runs; with no element, or an element
\* the stream was never bound to, nothing is stopped.
StopCamera(v) ==
    IF v \in {"bound", "playing"} THEN "stopped" ELSE cam

\* The component unmounts: every effect's cleanup runs (lines 33, 133, 250, 278)
Unmount ==
    /\ mounted
    /\ mounted' = FALSE
    /\ cam' = StopCamera(video)
    /\ loops' = Cleanup(LoopsBeforeRender(loops))
    /\ ZombiesBounded(loops')
    /\ interval' = 0
    /\ fxPending' = FALSE
    /\ video' = "none"
    /\ ev' = Quiet
    /\ UNCHANGED << variant, status, loading, qrImage, user, modelLoaded, model,
                    alerts, toBlob, posts, now, trigAt, late,
                    hasReset >>

----------------------------------------------------------------------------
Next ==
    \/ Tick
    \/ FlushEffects
    \/ \E l \in loops : IterBegin(l)
    \/ \E l \in loops, faces \in BOOLEAN : IterResume(l, faces)
    \/ IntervalTick
    \/ \E kind \in {"frame", "empty"}, blob \in BOOLEAN : ToBlobDone(kind, blob)
    \/ \E r \in Responses : Response(r)
    \/ ModelLoadOk
    \/ ModelLoadFail
    \/ CameraGrant
    \/ CameraDeny
    \/ VideoPlays
    \/ ResetScan
    \/ Unmount

Spec == Init /\ [][Next]_vars

\* The scheduling the runtime guarantees: time passes, a requested animation
\* frame is delivered, a detection, an encoding and a request settle, a due
\* interval ticks; the current loop gets its frames and detections whatever
\* other loops do.  Unmount and the "Scan Again" click are up to the user.
FairSpec ==
    /\ Spec
    /\ WF_vars(Tick)
    /\ WF_vars(FlushEffects)
    /\ WF_vars(\E l \in loops : IterBegin(l))
    /\ WF_vars(\E l \in loops, faces \in BOOLEAN : IterResume(l, faces))
    /\ WF_vars(\E l \in loops : l.cur /\ IterBegin(l))
    /\ WF_vars(\E l \in loops, faces \in BOOLEAN : l.cur /\ IterResume(l, faces))
    /\ WF_vars(IntervalTick)
    /\ WF_vars(\E kind \in {"frame", "empty"}, blob \in BOOLEAN : ToBlobDone(kind, blob))
    /\ WF_vars(\E r \in Responses : Response(r))
    /\ WF_vars(ModelLoadOk \/ ModelLoadFail)
    /\ WF_vars(CameraGrant \/ CameraDeny)
    /\ WF_vars(VideoPlays)

----------------------------------------------------------------------------
(* Properties *)

\* Submissions that have started and not settled: pending encodings and requests
InFlight == toBlob.frame + toBlob.empty + posts

\* Time a re-armed loop or timer needs to reach its next trigger
ArmWindow == SCAN_COOLDOWN + TickMs

\* The response handled by the last step is of this kind
Handled(kind) == ev.resp # <<>> /\ ev.resp[1].kind = kind

\* The loop is armed: the current detection loop, or the interval timer, will
\* call scanFace on its next eligible frame or tick; while the effect of the
\* last commit is pending, the loop or timer it is about to start will.
Armed ==
    IF variant = "enhanced"
    THEN \E l \in LoopsBeforeRender(loops) : l.cur /\ ~l.loading /\ ~l.generated
    ELSE IntervalBeforeRender(interval) # 0

\* C1 (enhanced): any two consecutive triggers fired by the detection loop
\* (scanFace called at line 118) are more than SCAN_COOLDOWN ms apart.
C1_CooldownBetweenTriggers ==
    (ev.trig /\ variant = "enhanced" /\ ev.prev # 0)
    => now - ev.prev > SCAN_COOLDOWN

\* C2 (both variants): at most one submission is in flight, and loading is
\* true while one is.
C2_OneSubmissionInFlight ==
    /\ InFlight <= 1
    /\ (mounted /\ InFlight > 0) => loading

\* C3 (both variants): after resetScan, with the component still mounted and
\* time left for a full stability or interval window, an image is eventually
\* submitted again.
C3_ReArmsAfterReset ==
    [] ( (hasReset /\ mounted /\ qrImage = null /\ now + ArmWindow <= MaxTime)
         => <> (ev.post \/ ~mounted \/ qrImage # null) )

\* C4 (both variants): once the component is unmounted no camera stream is
\* left active.
C4_NoTrackAfterUnmount ==
    ~mounted => cam # "live"

\* C5 (enhanced): a trigger fires only on an unbroken run of face frames that
\* started more than DETECTION_STABILITY_DELAY ms ago, and the stability timer
\* of every loop is the start of its current unbroken run (zero after a frame
\* without a face: no carry-over).
C5_StabilityWindow ==
    /\ (ev.trig /\ variant = "enhanced")
         => (ev.since # 0 /\ now - ev.since > DETECTION_STABILITY_DELAY)
    /\ \A l \in loops : l.firstDetectionTime = l.since

\* C5 witness: the loop has fired a trigger, on a run of face frames that
\* began after the loop had already been running.
C5_Witness ==
    /\ variant = "enhanced"
    /\ ev.trig
    /\ ev.started
    /\ ev.since > StartTime
    /\ now - ev.since > DETECTION_STABILITY_DELAY

\* C6 (both variants): while a result is displayed the status is the success
\* marker with the user stored, and no step calls scanFace, starts a capture
\* or issues a request.
C6_HaltedUntilReset ==
    (mounted /\ qrImage # null)
    => /\ status = QR_GENERATED
       /\ user # null
       /\ ~ev.trig
       /\ ~ev.started
       /\ ~ev.post

\* C7 (both variants): a scanFace call that has set loading on the mounted
\* component leaves an encoding or a request pending whose callback will
\* clear it; with nothing pending, no later step sets loading to false.
C7_LoadingAlwaysReleased ==
    (mounted /\ ev.started) => InFlight > 0

\* C8 (both variants): the response handler calls no state setter after the
\* component has unmounted.
C8_NoUpdateAfterUnmount ==
    "response" \notin late

\* C9 (both variants): after a success:false response, status is the server's
\* message when it is present and non-empty, else the fallback; qrImage and
\* user are empty, loading is false and the loop is armed.
C9_SoftFailure ==
    (mounted /\ Handled("soft"))
    => LET m == ev.resp[1].message
       IN  /\ status = (IF m # <<>> /\ m # <<"">> THEN m[1] ELSE NOT_RECOGNIZED)
           /\ qrImage = null
           /\ user = null
           /\ ~loading
           /\ Armed

\* C10 (both variants): a transport or server error sets status to the
\* server's message when there is a response carrying a non-empty one, else to
\* the fallback; loading becomes false; qrImage and user are left as they were.
C10_HardFailure ==
    [][ (mounted /\ ev'.resp # <<>> /\ ev'.resp[1].kind = "error")
        => LET r == ev'.resp[1]
           IN  /\ status' = (IF r.hasResponse /\ r.message # <<>> /\ r.message # <<"">>
                             THEN r.message[1] ELSE NOT_RECOGNIZED)
               /\ ~loading'
               /\ qrImage' = qrImage
               /\ user' = user ]_vars

\* C10 witness: the request failed without a response; the fallback is shown
\* and loading is cleared.
C10_Witness ==
    /\ mounted
    /\ Handled("error")
    /\ ~ev.resp[1].hasResponse
    /\ status = NOT_RECOGNIZED
    /\ ~loading

\* The response handled by the last step is a failure, soft or hard
FailureHandled == Handled("soft") \/ Handled("error")

C12_ResetScanFrame ==
    [][ ev'.reset => /\ qrImage # null
                     /\ qrImage' = null
                     /\ user' = null
                     /\ status' = IDLE
                     /\ loading' = loading
                     /\ modelLoaded' = modelLoaded
                     /\ cam' = cam ]_vars

\* C12 witness: resetScan has run while loading was true and the camera live;
\* loading is still true.
C12_Witness ==
    /\ ev.reset
    /\ loading
    /\ cam = "live"
    /\ status = IDLE
    /\ qrImage = null
    /\ user = null

\* C13 (enhanced): once detector initialization has failed, status is
\* "Model Error" for as long as the component is mounted, modelLoaded is
\* false, the camera is never requested, and there is no detection loop, no
\* capture trigger, no submission and no result.
C13_ModelErrorHalts ==
    model = "failed"
    => /\ mounted => status = MODEL_ERROR
       /\ ~modelLoaded
       /\ cam = "idle"
       /\ loops = {}
       /\ trigAt = 0
       /\ ~ev.trig
       /\ InFlight = 0
       /\ qrImage = null

\* C13 witness: the failure status is still displayed at the end of the clock.
C13_Witness ==
    /\ model = "failed"
    /\ mounted
    /\ status = MODEL_ERROR
    /\ now = MaxTime

\* The condition of line 273 on the current state
TimerCondition == qrImage = null /\ ~loading /\ status # QR_GENERATED

\* C14 (basic): once the effects of the last render have run, the interval
\* timer is armed exactly when no result is displayed, loading is false (which
\* there is the same as no submission in flight) and status is not the success
\* marker; whenever it is armed or re-armed, or has
\* ticked, its next tick is due exactly INTERVAL_MS later, whatever happened
\* before; and every tick is a scanFace call that passes its guard, made by an
\* armed timer that was due.
C14_FixedInterval ==
    /\ [] ( (variant = "basic" /\ mounted /\ ~fxPending)
            => /\ interval # 0 <=> TimerCondition
               /\ interval # 0 <=> (qrImage = null /\ InFlight = 0
                                    /\ status # QR_GENERATED) )
    /\ [][ (variant = "basic" /\ interval' # interval /\ interval' # 0)
           => interval' = now' + INTERVAL_MS ]_vars
    /\ [][ (variant = "basic" /\ ev'.trig)
           => (interval # 0 /\ now >= interval /\ ev'.started) ]_vars

\* C14 witness: a tick retries after a failure, INTERVAL_MS after the timer
\* was re-armed.
C14_Witness ==
    /\ variant = "basic"
    /\ mounted
    /\ ev.trig
    /\ ev.started
    /\ ev.from \in {NOT_RECOGNIZED, "Unknown face"}
    /\ interval = now + INTERVAL_MS

\* C15 (both variants): once camera access has been refused, the alert has
\* been raised exactly once, the camera is not requested again, no stream is
\* ever bound to the video, and no image is encoded or submitted and no result
\* obtained for the rest of the mount.
C15_CameraDenied ==
    /\ [] ( cam = "denied"
            => /\ alerts = 1
               /\ video \notin {"bound", "playing"}
               /\ toBlob.frame = 0
               /\ posts = 0
               /\ ~ev.post
               /\ qrImage = null )
    /\ [][ cam = "denied" => cam' = "denied" ]_vars

\* C15 witness: with the camera refused the timer still calls scanFace, and
\* nothing is submitted.
C15_Witness ==
    /\ cam = "denied"
    /\ mounted
    /\ alerts = 1
    /\ ev.trig
    /\ ev.started
    /\ posts = 0

\* C16 (enhanced): an iteration that finds the video paused, ended or without
\* data runs no detection, calls no scanFace, changes no state, and leaves
\* every loop as it was, its own stability and cooldown timestamps included,
\* with its one next frame requested.
C16_NotReadyIteration ==
    [][ ev'.skip
        => /\ video # "playing"
           /\ loops' = loops
           /\ ~ev'.trig /\ ~ev'.face /\ ~ev'.noface
           /\ toBlob' = toBlob /\ posts' = posts /\ trigAt' = trigAt
           /\ status' = status /\ loading' = loading
           /\ qrImage' = qrImage /\ user' = user ]_vars

\* C16 witness: a not-ready iteration has run while a loop carries a cooldown
\* timestamp from an earlier trigger.
C16_Witness ==
    /\ mounted
    /\ ev.skip
    /\ video = "empty"
    /\ \E l \in loops : l.pc = "raf" /\ l.lastScanTime # 0

\* C17 (enhanced): while the component is mounted at most one detection loop
\* is live, and every frame that is processed is processed by the loop of the
\* latest effect run.
C17_OneLiveLoop ==
    mounted => /\ Cardinality(loops) <= 1
               /\ (ev.face \/ ev.noface) => ev.cur

\* C18 (both variants): while mounted, status is "Scanning face..." only
\* while loading is true.
C18_ScanningImpliesLoading ==
    (mounted /\ status = SCANNING) => loading

\* C19 (both variants): while mounted, status is the success marker exactly
\* when a QR image is stored, and then the user record is stored too.
C19_SuccessIffResult ==
    mounted => /\ status = QR_GENERATED <=> qrImage # null
               /\ qrImage # null => user # null

====
